---------------------------- MODULE Spec2Model ----------------------------
(***************************************************************************)
(* Model of the LRD Image Creator (src/corel.py, the ranges-capable        *)
(* variant, and src/corel_text_pro.py, the Text-mode / auto-fit variant):  *)
(* the batch sequencer (parse_ranges and the start/end/step sequence), the *)
(* worker thread CreatorWorker.run with its signals, and the CreatorApp    *)
(* handlers that start, cancel and observe a run.                          *)
(*                                                                         *)
(* Text is modelled as a sequence of one-character strings, so that        *)
(* parsing (int, split, strip) and formatting (str) are computed           *)
(* character by character as Python computes them.                        *)
(***************************************************************************)
EXTENDS Integers, Sequences, FiniteSets, TLC

VARIABLES
    variant,         \* which program runs: "corel" or "text_pro"
    app,             \* "running", or "aborted" by an exception in a slot
    create_enabled,  \* CreatorApp.create_btn.isEnabled()
    cancel_enabled,  \* CreatorApp.cancel_btn.isEnabled()
    dialog,          \* the last message box the GUI showed
    gui_progress,    \* <<processed_count, total_est>> of CreatorApp
    delivered,       \* how many of the worker's signals the GUI has handled
    runs,            \* how many workers start_create has built
    pc,              \* position of the worker thread inside run()
    job,             \* the CreatorWorker's constructor arguments
    stop,            \* CreatorWorker._stop
    count_values,    \* run(): count_values
    processed,       \* run(): processed
    signals,         \* every signal the worker emitted, in order
    files,           \* values whose image the worker saved, in order
    manifest,        \* rows of created_images_report.xlsx written by this run
    trace,           \* history of the run, see the Note* operators
    fn_args,         \* arguments of a direct call of a pure function
    fn_result        \* its result

vars == <<variant, app, create_enabled, cancel_enabled, dialog, gui_progress,
          delivered, runs, pc, job, stop, count_values, processed, signals,
          files, manifest, trace, fn_args, fn_result>>

gui_vars == <<app, create_enabled, cancel_enabled, dialog, gui_progress, delivered>>
worker_vars == <<pc, job, stop, count_values, processed, signals, files,
                 manifest, trace>>
fn_vars == <<fn_args, fn_result>>

---------------------------------------------------------------------------
(* Bounds of the model.                                                    *)

MaxRuns == 2      \* Create starts at most MaxRuns workers
MaxCount == 4     \* direct calls: start and end are drawn from -1 .. MaxCount
MaxStep == 3      \* direct calls: step is drawn from -1 .. MaxStep
MaxNum == 3       \* numbers of a ranges token are drawn from -1 .. MaxNum
MaxTokens == 2    \* tokens in a ranges text built from SmallTokens
MaxName == 2      \* direct calls: letters of a base name or custom text
MaxBg == 3        \* direct calls: the background is up to MaxBg x MaxBg pixels
MaxPx == 3        \* direct calls: the requested size is up to MaxPx x MaxPx
MaxDim == 12      \* direct calls: the text is fitted to canvases up to MaxDim
MaxPad == 2       \* direct calls: a padding is 0 or MaxPad
MaxFont == 9      \* direct calls: font_size is drawn from 3 .. MaxFont
\* values of one run in the direct calls of the text fit
MaxValues == 2

MaxText == 2      \* direct calls: characters of the text to fit

---------------------------------------------------------------------------
(* Python text primitives.                                                 *)

Digits == <<"0", "1", "2", "3", "4", "5", "6", "7", "8", "9">>

DigitChars == {Digits[i] : i \in 1..10}

DigitVal(c) == (CHOOSE i \in 1..10 : Digits[i] = c) - 1

Max(a, b) == IF a >= b THEN a ELSE b

RECURSIVE StrNat(_)
StrNat(n) ==
    IF n < 10 THEN <<Digits[n + 1]>>
    ELSE StrNat(n \div 10) \o <<Digits[(n % 10) + 1]>>

\* str(n), and f"{n}", of a Python int
str(n) == IF n < 0 THEN <<"-">> \o StrNat(-n) ELSE StrNat(n)

RECURSIVE lstrip(_)
lstrip(s) == IF s # <<>> /\ Head(s) = " " THEN lstrip(Tail(s)) ELSE s

RECURSIVE rstrip(_)
rstrip(s) ==
    IF s # <<>> /\ s[Len(s)] = " " THEN rstrip(SubSeq(s, 1, Len(s) - 1)) ELSE s

strip(s) == rstrip(lstrip(s))

RECURSIVE NatVal(_)
NatVal(s) ==
    IF s = <<>> THEN 0
    ELSE 10 * NatVal(SubSeq(s, 1, Len(s) - 1)) + DigitVal(s[Len(s)])

\* int(s): surrounding blanks and one sign are accepted, then digits only;
\* ok = FALSE stands for the ValueError
int(s) ==
    LET t == strip(s)
        signed == t # <<>> /\ Head(t) \in {"-", "+"}
        body == IF signed THEN Tail(t) ELSE t
    IN  IF body # <<>> /\ \A i \in 1..Len(body) : body[i] \in DigitChars
        THEN [ok |-> TRUE,
              val |-> IF signed /\ Head(t) = "-" THEN -NatVal(body)
                      ELSE NatVal(body)]
        ELSE [ok |-> FALSE, val |-> 0]

contains(s, c) == \E i \in 1..Len(s) : s[i] = c

replace(s, old, new) == [i \in 1..Len(s) |-> IF s[i] = old THEN new ELSE s[i]]

RECURSIVE split(_, _)
split(s, sep) ==
    IF contains(s, sep)
    THEN LET i == CHOOSE k \in 1..Len(s) :
                      s[k] = sep /\ \A j \in 1..(k - 1) : s[j] # sep
         IN  <<SubSeq(s, 1, i - 1)>> \o split(SubSeq(s, i + 1, Len(s)), sep)
    ELSE <<s>>

\* list(range(a, limit, step)) for step # 0
RECURSIVE range(_, _, _)
range(a, limit, step) ==
    IF (step > 0 /\ a < limit) \/ (step < 0 /\ a > limit)
    THEN <<a>> \o range(a + step, limit, step)
    ELSE <<>>

---------------------------------------------------------------------------
(* parse_ranges, src/corel.py.  A result is [raised, vals]: raised = TRUE  *)
(* stands for the exception that leaves parse_ranges.                      *)

\* the comprehension that builds parts: split on "," after ";" -> ",",
\* blank pieces dropped, the others stripped
RECURSIVE StripNonBlank(_)
StripNonBlank(ps) ==
    IF ps = <<>> THEN <<>>
    ELSE IF strip(Head(ps)) # <<>>
         THEN <<strip(Head(ps))>> \o StripNonBlank(Tail(ps))
         ELSE StripNonBlank(Tail(ps))

Parts(spec) == StripNonBlank(split(replace(spec, ";", ","), ","))

\* the body of the for loop over parts, for one part p
ParseToken(p0) ==
    LET p == IF contains(p0, ":") \/ contains(p0, "x")
             THEN replace(p0, "x", ":") ELSE p0
    IN  IF contains(p, "-")
        THEN LET two == SubSeq(split(p, ":") \o << <<"1">> >>, 1, 2)
                 rng == two[1]
                 st == two[2]
                 ab == split(rng, "-")
             IN  IF Len(ab) # 2 THEN [raised |-> TRUE, vals |-> <<>>]
                 ELSE LET a == int(strip(ab[1]))
                          b == int(strip(ab[2]))
                          s == int(strip(st))
                      IN  IF ~(a.ok /\ b.ok /\ s.ok)
                          THEN [raised |-> TRUE, vals |-> <<>>]
                          ELSE [raised |-> FALSE,
                                vals |->
                                  IF a.val <= b.val
                                  THEN range(a.val, b.val + 1, Max(1, s.val))
                                  ELSE range(a.val, b.val - 1, -Max(1, s.val))]
        ELSE LET n == int(p)
             IN  [raised |-> FALSE,
                  vals |-> IF n.ok THEN <<n.val>> ELSE <<>>]

RECURSIVE ParseTokens(_)
ParseTokens(ps) ==
    IF ps = <<>> THEN [raised |-> FALSE, vals |-> <<>>]
    ELSE LET h == ParseToken(Head(ps))
         IN  IF h.raised THEN h
             ELSE LET t == ParseTokens(Tail(ps))
                  IN  IF t.raised THEN t
                      ELSE [raised |-> FALSE, vals |-> h.vals \o t.vals]

\* the seen/out loop: first occurrences, in order
RECURSIVE Dedup(_, _)
Dedup(vals, seen) ==
    IF vals = <<>> THEN <<>>
    ELSE IF Head(vals) \in seen THEN Dedup(Tail(vals), seen)
         ELSE <<Head(vals)>> \o Dedup(Tail(vals), seen \cup {Head(vals)})

\* mutant of parse_ranges: the values are returned as the tokens give them
parse_ranges_keeps_duplicates(spec) ==
    IF strip(spec) = <<>> THEN [raised |-> FALSE, vals |-> <<>>]
    ELSE ParseTokens(Parts(spec))

parse_ranges(spec) ==
    IF strip(spec) = <<>> THEN [raised |-> FALSE, vals |-> <<>>]
    ELSE LET r == ParseTokens(Parts(spec))
         IN  IF r.raised THEN r
             ELSE [raised |-> FALSE, vals |-> Dedup(r.vals, {})]

---------------------------------------------------------------------------
(* File names.                                                             *)

ForbiddenChars == {"\\", "/", ":", "*", "?", "\"", "<", ">", "|"}

KeepChar(c) == c \notin ForbiddenChars

KeepNonSeparator(c) == c \notin {"\\", "/"}

\* mutant of sanitize_filename: only the path separators are removed
sanitize_separators(name) == SelectSeq(name, KeepNonSeparator)

sanitize_filename(name) == SelectSeq(name, KeepChar)

OutputFolder == <<"o", "u", "t">>

\* os.path.join(folder, name) for a name that holds no separator
PathJoin(folder, name) == folder \o <<"/">> \o name

\* str(val): a number is formatted, the custom text is a str already
StrOfValue(j, v) == IF j.mode = "Text" THEN v ELSE str(v)

\* on: the file name run() composes for value v
OutputName(var, j, v) ==
    IF var = "corel"
    THEN sanitize_filename(j.base_name) \o <<"_">> \o StrOfValue(j, v)
             \o <<".">> \o j.out_ext
    ELSE sanitize_filename(j.base_name) \o <<"_">>
             \o sanitize_filename(StrOfValue(j, v)) \o <<".">> \o j.out_ext

\* op: the path the image of value v is saved to
OutputPath(var, j, v) ==
    PathJoin(OutputFolder, sanitize_filename(OutputName(var, j, v)))

---------------------------------------------------------------------------
(* CreatorWorker: construction and the value sequence.                     *)

\* CreatorWorker.__init__: the fields run() reads, with their coercions.
\* bg is what the worker will find at background_path: "ok", "missing" or
\* "unreadable"; px is <<int(round(w_in*dpi)), int(round(h_in*dpi))>>.
CreatorWorker(bg, px, mode, custom_text, start, end, step, base, ranges, outline) ==
    [bg |-> bg, px |-> px, mode |-> mode, custom_text |-> custom_text,
     outline |-> outline,
     start_count |-> start, end_count |-> end, step |-> Max(1, step),
     out_ext |-> <<"p", "n", "g">>,
     base_name |-> IF base = <<>> THEN <<"c", "r", "e", "a", "t", "e", "d">>
                   ELSE base,
     ranges |-> ranges]

NoWorker ==
    CreatorWorker("missing", <<1, 1>>, "Numbers", <<>>, 0, 0, 1, <<>>, <<>>,
                  TRUE)

\* mutant of SimpleSequence: the end value is left out
SimpleSequenceOpen(start, end, step) ==
    IF start <= end THEN range(start, end, step)
    ELSE range(start, end, -step)

\* the start/end/step branch of run()
SimpleSequence(start, end, step) ==
    IF start <= end THEN range(start, end + 1, step)
    ELSE range(start, end - 1, -step)

\* mutant of CountValues: Text mode gives the text once per counter value
CountValuesPerCounter(var, j) ==
    IF var = "corel"
    THEN IF j.ranges # <<>> THEN j.ranges
         ELSE SimpleSequence(j.start_count, j.end_count, j.step)
    ELSE IF j.mode = "Text"
         THEN [i \in 1..Len(SimpleSequence(j.start_count, j.end_count,
                                           j.step)) |-> j.custom_text]
         ELSE SimpleSequence(j.start_count, j.end_count, j.step)

\* run(): count_values
\* mutant of CountValues: the ranges list is not looked at
CountValuesCounterOnly(var, j) ==
    IF var = "text_pro" /\ j.mode = "Text" THEN <<j.custom_text>>
    ELSE SimpleSequence(j.start_count, j.end_count, j.step)

CountValues(var, j) ==
    IF var = "corel"
    THEN IF j.ranges # <<>> THEN j.ranges
         ELSE SimpleSequence(j.start_count, j.end_count, j.step)
    ELSE IF j.mode = "Text" THEN <<j.custom_text>>
         ELSE SimpleSequence(j.start_count, j.end_count, j.step)

\* run(): target_w, target_h before the auto-fit substitution
TargetSize(j) == <<Max(1, j.px[1]), Max(1, j.px[2])>>

\* mutant of AutoFit: both sides have to be <= 1
AutoFitBoth(j) == TargetSize(j)[1] <= 1 /\ TargetSize(j)[2] <= 1

\* run() of corel_text_pro.py: the auto-fit test
AutoFit(j) == TargetSize(j)[1] <= 1 \/ TargetSize(j)[2] <= 1

\* mutant of ManifestRows: a row for every value, rendered or not
ManifestRowsAll(var, j, vals, n) ==
    [i \in 1..Len(vals) |->
        [value |-> vals[i], name |-> OutputName(var, j, vals[i]),
         path |-> OutputPath(var, j, vals[i]), ext |-> j.out_ext]]

\* mutant of ManifestRows: the full path is built from the base name as
\* given
ManifestRowsRawPath(var, j, vals, n) ==
    [i \in 1..n |->
        [value |-> vals[i], name |-> OutputName(var, j, vals[i]),
         path |-> PathJoin(OutputFolder,
                           j.base_name \o <<"_">> \o StrOfValue(j, vals[i])
                               \o <<".">> \o j.out_ext),
         ext |-> j.out_ext]]

\* rows: the manifest rows run() builds from count_values[:processed]
ManifestRows(var, j, vals, n) ==
    [i \in 1..n |->
        [value |-> vals[i], name |-> OutputName(var, j, vals[i]),
         path |-> OutputPath(var, j, vals[i]), ext |-> j.out_ext]]

---------------------------------------------------------------------------
(* Signals and the history of a run.                                       *)

Signal(sig, a, b, msg) == [sig |-> sig, a |-> a, b |-> b, msg |-> msg]

DoneSignal == Signal("done", 0, 0, "output_folder")

NoTrace ==
    [started |-> 0,          \* values that passed the stop check
     attempts |-> 0,         \* calls of save
     stop_seen |-> 0,        \* index of the value whose check found _stop set
     failed_at |-> 0,        \* index of the value whose save failed
     raised_at |-> 0,        \* index of the value whose rendering raised
     manifest_writes |-> 0,  \* calls of to_excel
     manifest_failed |-> FALSE,
     reported |-> FALSE,     \* the report block after the loop was entered
     stop_called |-> FALSE,  \* request_stop was called on this worker
     stop_files |-> 0,       \* Len(files) when it was first called
     stop_started |-> 0,     \* started when it was first called
     stop_pc |-> "none",     \* pc when it was first called
     ranges_text |-> <<>>,   \* ranges_input.text() when Create was clicked
     events |-> <<>>]        \* what run() did for the current value, in order

\* one step of run() for a value; a draw.text call has its offset from
\* (tx, ty) and its colour
Event(op) == [op |-> op, dx |-> 0, dy |-> 0, colour |-> "none"]

DrawText(dx, dy, colour) ==
    [op |-> "draw_text", dx |-> dx, dy |-> dy, colour |-> colour]

\* the offsets of the outline loop, in its order
OutlineOffsets ==
    <<<<-1, 0>>, <<1, 0>>, <<0, -1>>, <<0, 1>>,
      <<-1, -1>>, <<1, 1>>, <<-1, 1>>, <<1, -1>>>>

total == Len(count_values)

isRunning == pc \notin {"none", "finished"}

---------------------------------------------------------------------------
(* CreatorWorker.run, one action per stretch of code between two points    *)
(* where the GUI thread can observe or influence the worker.               *)

Emit(sigs) == signals' = signals \o sigs

\* mutant of RunOpenBackground: no return after the open fails
RunOpenBackgroundContinues ==
    /\ pc = "start"
    /\ IF job.bg = "missing"
       THEN /\ Emit(<<Signal("error", 0, 0, "Background image not found.")>>)
            /\ pc' = "finished"
       ELSE IF job.bg = "unreadable"
       THEN /\ Emit((IF variant = "corel"
                     THEN <<Signal("log", TargetSize(job)[1],
                                   TargetSize(job)[2], "Target")>>
                     ELSE <<>>)
                    \o <<Signal("error", 0, 0, "Cannot open background")>>)
            /\ pc' = "build"
       ELSE /\ Emit(IF variant = "corel"
                    THEN <<Signal("log", TargetSize(job)[1],
                                  TargetSize(job)[2], "Target")>>
                    ELSE IF AutoFit(job)
                         THEN <<Signal("log", 0, 0, "Auto-fit")>>
                         ELSE <<>>)
            /\ pc' = "build"
    /\ UNCHANGED <<variant, gui_vars, runs, job, stop, count_values,
                   processed, files, manifest, trace, fn_vars>>

\* the background checks: path test, the "Target" log of corel.py, the
\* open, and the auto-fit log of corel_text_pro.py
RunOpenBackground ==
    /\ pc = "start"
    /\ IF job.bg = "missing"
       THEN /\ Emit(<<Signal("error", 0, 0, "Background image not found.")>>)
            /\ pc' = "finished"
       ELSE IF job.bg = "unreadable"
       THEN /\ Emit((IF variant = "corel"
                     THEN <<Signal("log", TargetSize(job)[1],
                                   TargetSize(job)[2], "Target")>>
                     ELSE <<>>)
                    \o <<Signal("error", 0, 0, "Cannot open background")>>)
            /\ pc' = "finished"
       ELSE /\ Emit(IF variant = "corel"
                    THEN <<Signal("log", TargetSize(job)[1],
                                  TargetSize(job)[2], "Target")>>
                    ELSE IF AutoFit(job)
                         THEN <<Signal("log", 0, 0, "Auto-fit")>>
                         ELSE <<>>)
            /\ pc' = "build"
    /\ UNCHANGED <<variant, gui_vars, runs, job, stop, count_values,
                   processed, files, manifest, trace, fn_vars>>

\* mutant of RunBuildValues: start_estimate is not emitted
RunBuildValuesSilent ==
    /\ pc = "build"
    /\ count_values' = CountValues(variant, job)
    /\ processed' = 0
    /\ UNCHANGED signals
    /\ pc' = "check"
    /\ UNCHANGED <<variant, gui_vars, runs, job, stop, files, manifest,
                   trace, fn_vars>>

\* font load, count_values, total, start_estimate, processed = 0
RunBuildValues ==
    /\ pc = "build"
    /\ count_values' = CountValues(variant, job)
    /\ processed' = 0
    /\ Emit(<<Signal("start_estimate", Len(count_values'), 0, "")>>)
    /\ pc' = "check"
    /\ UNCHANGED <<variant, gui_vars, runs, job, stop, files, manifest,
                   trace, fn_vars>>

\* mutant of RunCheckStop: the loop does not look at _stop
RunCheckStopIgnored ==
    /\ pc = "check"
    /\ IF processed >= total
       THEN /\ pc' = "manifest"
            /\ UNCHANGED <<signals, trace>>
       ELSE /\ trace' = [trace EXCEPT !.started = @ + 1]
            /\ pc' = "render"
            /\ UNCHANGED signals
    /\ UNCHANGED <<variant, gui_vars, runs, job, stop, count_values,
                   processed, files, manifest, fn_vars>>

\* the head of the for loop and the stop check of value processed + 1
RunCheckStop ==
    /\ pc = "check"
    /\ IF processed >= total
       THEN /\ pc' = "manifest"
            /\ UNCHANGED <<signals, trace>>
       ELSE IF stop
       THEN /\ Emit(<<Signal("log", 0, 0, "Stop requested.")>>)
            /\ trace' = [trace EXCEPT !.stop_seen = processed + 1,
                                      !.events = <<Event("stop_check")>>]
            /\ pc' = "manifest"
       ELSE /\ trace' = [trace EXCEPT !.started = @ + 1,
                                      !.events = <<Event("stop_check")>>]
            /\ pc' = "render"
            /\ UNCHANGED signals
    /\ UNCHANGED <<variant, gui_vars, runs, job, stop, count_values,
                   processed, files, manifest, fn_vars>>

\* the draw.text calls of one value: the outline loop, then the fill
DrawCalls(j) ==
    (IF j.outline
     THEN [i \in 1..Len(OutlineOffsets) |->
              DrawText(OutlineOffsets[i][1], OutlineOffsets[i][2], "black")]
     ELSE <<>>)
    \o <<DrawText(0, 0, "font_color")>>

\* mutant of RunRender: the fill is drawn first, the outline over it
RunRenderFillFirst ==
    /\ pc = "render"
    /\ trace' = [trace EXCEPT !.events =
                    @ \o <<Event("background"), Event("text_fit"),
                           DrawText(0, 0, "font_color")>>
                      \o SubSeq(DrawCalls(job), 1, Len(DrawCalls(job)) - 1)]
    /\ pc' = "save"
    /\ UNCHANGED <<variant, gui_vars, runs, job, stop, count_values,
                   processed, signals, files, manifest, fn_vars>>

\* canvas, background fit, text fit and the draw calls of one value
RunRender ==
    /\ pc = "render"
    /\ trace' = [trace EXCEPT !.events =
                    @ \o <<Event("background"), Event("text_fit")>>
                      \o DrawCalls(job)]
    /\ pc' = "save"
    /\ UNCHANGED <<variant, gui_vars, runs, job, stop, count_values,
                   processed, signals, files, manifest, fn_vars>>

\* an exception of the image library while a value is rendered reaches the
\* outer handler of run()
RunRenderRaises ==
    /\ pc = "render"
    /\ Emit(<<Signal("error", 0, 0, "Worker exception")>>)
    /\ trace' = [trace EXCEPT !.raised_at = processed + 1]
    /\ pc' = "finished"
    /\ UNCHANGED <<variant, gui_vars, runs, job, stop, count_values,
                   processed, files, manifest, fn_vars>>

\* the save of value processed + 1 succeeds
RunSave ==
    /\ pc = "save"
    /\ files' = Append(files,
                       [value |-> count_values[processed + 1],
                        path |-> OutputPath(variant, job,
                                            count_values[processed + 1])])
    /\ trace' = [trace EXCEPT !.attempts = @ + 1,
                              !.events = Append(@, Event("save"))]
    /\ pc' = "progress"
    /\ UNCHANGED <<variant, gui_vars, runs, job, stop, count_values,
                   processed, signals, manifest, fn_vars>>

\* mutant of RunSaveFails: the failure is logged and the value tried again
RunSaveFailsRetry ==
    /\ pc = "save"
    /\ Emit(<<Signal("log", 0, 0, "Save failed")>>)
    /\ trace' = [trace EXCEPT !.attempts = @ + 1,
                              !.failed_at = processed + 1]
    /\ pc' = "render"
    /\ UNCHANGED <<variant, gui_vars, runs, job, stop, count_values,
                   processed, files, manifest, fn_vars>>

\* the save raises: log, error, return
RunSaveFails ==
    /\ pc = "save"
    /\ Emit(<<Signal("log", 0, 0, "Save failed"),
              Signal("error", 0, 0, "Save failed")>>)
    /\ trace' = [trace EXCEPT !.attempts = @ + 1,
                              !.failed_at = processed + 1]
    /\ pc' = "finished"
    /\ UNCHANGED <<variant, gui_vars, runs, job, stop, count_values,
                   processed, files, manifest, fn_vars>>

\* mutant of RunProgress: progress is emitted before processed is counted up
RunProgressStale ==
    /\ pc = "progress"
    /\ processed' = processed + 1
    /\ Emit(<<Signal("progress", processed, total, "")>>)
    /\ pc' = "preview"
    /\ UNCHANGED <<variant, gui_vars, runs, job, stop, count_values, files,
                   manifest, trace, fn_vars>>

\* processed += 1; progress.emit(processed, total)
RunProgress ==
    /\ pc = "progress"
    /\ processed' = processed + 1
    /\ Emit(<<Signal("progress", processed', total, "")>>)
    /\ trace' = [trace EXCEPT !.events = Append(@, Event("progress"))]
    /\ pc' = "preview"
    /\ UNCHANGED <<variant, gui_vars, runs, job, stop, count_values, files,
                   manifest, fn_vars>>

\* preview.emit(canvas.copy()); msleep(15)
RunPreview ==
    /\ pc = "preview"
    /\ Emit(<<Signal("preview", processed, 0, "")>>)
    /\ trace' = [trace EXCEPT !.events = Append(@, Event("preview"))]
    /\ pc' = "check"
    /\ UNCHANGED <<variant, gui_vars, runs, job, stop, count_values,
                   processed, files, manifest, fn_vars>>

\* mutant of RunManifest: the report is written without the test on rows
RunManifestUnguarded ==
    /\ pc = "manifest"
    /\ manifest' = [written |-> TRUE,
                    rows |-> ManifestRows(variant, job, count_values,
                                          processed)]
    /\ Emit(<<Signal("log", 0, 0, "Excel")>>)
    /\ trace' = [trace EXCEPT !.reported = TRUE, !.manifest_writes = @ + 1]
    /\ pc' = "done"
    /\ UNCHANGED <<variant, gui_vars, runs, job, stop, count_values,
                   processed, files, fn_vars>>

\* mutant of RunManifest: a failure of to_excel is reported as an error
RunManifestFatal ==
    /\ pc = "manifest"
    /\ IF ManifestRows(variant, job, count_values, processed) = <<>>
       THEN /\ trace' = [trace EXCEPT !.reported = TRUE]
            /\ UNCHANGED <<manifest, signals>>
       ELSE \/ /\ manifest' = [written |-> TRUE,
                              rows |-> ManifestRows(variant, job,
                                                    count_values, processed)]
               /\ Emit(<<Signal("log", 0, 0, "Excel")>>)
               /\ trace' = [trace EXCEPT !.reported = TRUE,
                                         !.manifest_writes = @ + 1]
            \/ /\ Emit(<<Signal("log", 0, 0, "Excel error"),
                         Signal("error", 0, 0, "Excel error")>>)
               /\ trace' = [trace EXCEPT !.reported = TRUE,
                                         !.manifest_writes = @ + 1,
                                         !.manifest_failed = TRUE]
               /\ UNCHANGED manifest
    /\ pc' = "done"
    /\ UNCHANGED <<variant, gui_vars, runs, job, stop, count_values,
                   processed, files, fn_vars>>

\* the report block after the loop; to_excel may raise, which is logged
RunManifest ==
    /\ pc = "manifest"
    /\ IF ManifestRows(variant, job, count_values, processed) = <<>>
       THEN /\ trace' = [trace EXCEPT !.reported = TRUE]
            /\ UNCHANGED <<manifest, signals>>
       ELSE \/ /\ manifest' = [written |-> TRUE,
                              rows |-> ManifestRows(variant, job,
                                                    count_values, processed)]
               /\ Emit(<<Signal("log", 0, 0, "Excel")>>)
               /\ trace' = [trace EXCEPT !.reported = TRUE,
                                         !.manifest_writes = @ + 1]
            \/ /\ Emit(<<Signal("log", 0, 0, "Excel error")>>)
               /\ trace' = [trace EXCEPT !.reported = TRUE,
                                         !.manifest_writes = @ + 1,
                                         !.manifest_failed = TRUE]
               /\ UNCHANGED manifest
    /\ pc' = "done"
    /\ UNCHANGED <<variant, gui_vars, runs, job, stop, count_values,
                   processed, files, fn_vars>>

\* mutant of RunDone: run() returns without the done signal
RunDoneSilent ==
    /\ pc = "done"
    /\ pc' = "finished"
    /\ UNCHANGED <<variant, gui_vars, runs, job, stop, count_values,
                   processed, signals, files, manifest, trace, fn_vars>>

\* done.emit(self.output_folder)
RunDone ==
    /\ pc = "done"
    /\ Emit(<<DoneSignal>>)
    /\ pc' = "finished"
    /\ UNCHANGED <<variant, gui_vars, runs, job, stop, count_values,
                   processed, files, manifest, trace, fn_vars>>

WorkerStep ==
    \/ RunOpenBackground
    \/ RunBuildValues
    \/ RunCheckStop
    \/ RunRender
    \/ RunRenderRaises
    \/ RunSave
    \/ RunSaveFails
    \/ RunProgress
    \/ RunPreview
    \/ RunManifest
    \/ RunDone

---------------------------------------------------------------------------
(* CreatorApp: what the user can enter, and the slots.                     *)

\* <<start, end, step>> of the three spin boxes
CounterInputs == {<<1, 3, 1>>, <<2, -1, 2>>, <<0, 0, 1>>}

\* texts of ranges_input (corel.py): empty, "2,1,2", "1-a" and "a"
RangesInputs ==
    {<<>>, <<"2", ",", "1", ",", "2">>, <<"1", "-", "a">>, <<"a">>}

\* the pixel size the width, height and dpi boxes give; corel_text_pro.py
\* lets width and height be 0 (and the auto-fit box forces both to 0)
PixelInputs(var) ==
    IF var = "corel" THEN {<<4, 3>>} ELSE {<<0, 0>>, <<4, 3>>}

ModeInputs(var) == IF var = "corel" THEN {"Numbers"} ELSE {"Numbers", "Text"}

TextInputs == {<<"h", "i">>}

BaseNameInputs == {<<"g", ":">>}

\* _collect_params: ranges is parse_ranges(ranges_input.text()) in corel.py
CollectRanges(var, text) ==
    IF var = "corel" THEN parse_ranges(text)
    ELSE [raised |-> FALSE, vals |-> <<>>]

\* start_create.  at_click is what os.path.isfile(background_path) gives in
\* the slot, at_run what the worker finds later at the same path.
start_create ==
    /\ app = "running"
    /\ create_enabled
    /\ runs < MaxRuns
    /\ \E at_click \in {"missing", "present"}, folder_ok \in BOOLEAN,
          rtext \in (IF variant = "corel" THEN RangesInputs ELSE {<<>>}) :
        IF at_click = "missing"
        THEN /\ dialog' = "Missing background"
             /\ UNCHANGED <<variant, app, create_enabled, cancel_enabled,
                            gui_progress, delivered, runs, worker_vars,
                            fn_vars>>
        ELSE IF ~folder_ok
        THEN /\ dialog' = "Cannot create output folder"
             /\ UNCHANGED <<variant, app, create_enabled, cancel_enabled,
                            gui_progress, delivered, runs, worker_vars,
                            fn_vars>>
        ELSE IF CollectRanges(variant, rtext).raised
        THEN /\ app' = "aborted"
             /\ UNCHANGED <<variant, create_enabled, cancel_enabled, dialog,
                            gui_progress, delivered, runs, worker_vars,
                            fn_vars>>
        ELSE \E at_run \in {"ok", "missing", "unreadable"},
                c \in CounterInputs,
                px \in PixelInputs(variant),
                mode \in ModeInputs(variant),
                text \in TextInputs,
                base \in BaseNameInputs,
                outline \in BOOLEAN :
             /\ job' = CreatorWorker(at_run, px, mode, text,
                                     IF mode = "Text" THEN 0 ELSE c[1],
                                     IF mode = "Text" THEN 0 ELSE c[2],
                                     IF mode = "Text" THEN 1 ELSE c[3],
                                     base, CollectRanges(variant, rtext).vals,
                                     outline)
             /\ stop' = FALSE
             /\ pc' = "start"
             /\ count_values' = <<>>
             /\ processed' = 0
             /\ signals' = <<>>
             /\ files' = <<>>
             /\ manifest' = [written |-> FALSE, rows |-> <<>>]
             /\ trace' = [NoTrace EXCEPT !.ranges_text = rtext]
             /\ delivered' = 0
             /\ gui_progress' = <<0, 0>>
             /\ create_enabled' = FALSE
             /\ cancel_enabled' = TRUE
             /\ runs' = runs + 1
             /\ UNCHANGED <<variant, app, dialog, fn_vars>>

\* CreatorWorker.request_stop
request_stop ==
    /\ stop' = TRUE
    /\ trace' = IF trace.stop_called THEN trace
                ELSE [trace EXCEPT !.stop_called = TRUE,
                                   !.stop_files = Len(files),
                                   !.stop_started = trace.started,
                                   !.stop_pc = pc]

\* mutant of cancel_create: the stop request is made without looking at the
\* worker
cancel_create_unguarded ==
    /\ app = "running"
    /\ cancel_enabled
    /\ request_stop
    /\ cancel_enabled' = FALSE
    /\ UNCHANGED <<variant, app, create_enabled, dialog, gui_progress,
                   delivered, runs, pc, job, count_values, processed,
                   signals, files, manifest, fn_vars>>

\* cancel_create: the Cancel button can be clicked while it is enabled
cancel_create ==
    /\ app = "running"
    /\ cancel_enabled
    /\ IF pc # "none" /\ isRunning
       THEN /\ request_stop
            /\ cancel_enabled' = FALSE
       ELSE UNCHANGED <<stop, trace, cancel_enabled>>
    /\ UNCHANGED <<variant, app, create_enabled, dialog, gui_progress,
                   delivered, runs, pc, job, count_values, processed,
                   signals, files, manifest, fn_vars>>

\* the next signal of the worker waiting in the GUI thread's event queue
Pending(sig) ==
    /\ app = "running"
    /\ delivered < Len(signals)
    /\ signals[delivered + 1].sig = sig

_on_start_estimate ==
    /\ Pending("start_estimate")
    /\ gui_progress' = <<gui_progress[1], signals[delivered + 1].a>>
    /\ delivered' = delivered + 1
    /\ UNCHANGED <<variant, app, create_enabled, cancel_enabled, dialog,
                   runs, worker_vars, fn_vars>>

_on_progress ==
    /\ Pending("progress")
    /\ gui_progress' = <<signals[delivered + 1].a, signals[delivered + 1].b>>
    /\ delivered' = delivered + 1
    /\ UNCHANGED <<variant, app, create_enabled, cancel_enabled, dialog,
                   runs, worker_vars, fn_vars>>

_on_preview ==
    /\ Pending("preview")
    /\ delivered' = delivered + 1
    /\ UNCHANGED <<variant, app, create_enabled, cancel_enabled, dialog,
                   gui_progress, runs, worker_vars, fn_vars>>

\* the lambda connected to worker.log
_on_log ==
    /\ Pending("log")
    /\ delivered' = delivered + 1
    /\ UNCHANGED <<variant, app, create_enabled, cancel_enabled, dialog,
                   gui_progress, runs, worker_vars, fn_vars>>

\* mutant of _on_done: the handler shows the dialog and leaves the buttons
_on_done_keeps_buttons ==
    /\ Pending("done")
    /\ dialog' = "Done"
    /\ delivered' = delivered + 1
    /\ UNCHANGED <<variant, app, create_enabled, cancel_enabled,
                   gui_progress, runs, worker_vars, fn_vars>>

_on_done ==
    /\ Pending("done")
    /\ dialog' = "Done"
    /\ create_enabled' = TRUE
    /\ cancel_enabled' = FALSE
    /\ delivered' = delivered + 1
    /\ UNCHANGED <<variant, app, gui_progress, runs, worker_vars, fn_vars>>

_on_error ==
    /\ Pending("error")
    /\ dialog' = "Error"
    /\ create_enabled' = TRUE
    /\ cancel_enabled' = FALSE
    /\ delivered' = delivered + 1
    /\ UNCHANGED <<variant, app, gui_progress, runs, worker_vars, fn_vars>>

GuiStep ==
    \/ _on_start_estimate
    \/ _on_progress
    \/ _on_preview
    \/ _on_log
    \/ _on_done
    \/ _on_error

---------------------------------------------------------------------------
(* The program: the window after construction, no worker yet.              *)

NoCall == [fn |-> "none", text |-> <<>>, toks |-> <<>>, sep |-> <<>>,
           start |-> 0, end |-> 0, step |-> 0]

NoResult == [done |-> FALSE, raised |-> FALSE, vals |-> <<>>]

Idle ==
    /\ app = "running"
    /\ create_enabled = TRUE
    /\ cancel_enabled = FALSE
    /\ dialog = "none"
    /\ gui_progress = <<0, 0>>
    /\ delivered = 0
    /\ runs = 0
    /\ pc = "none"
    /\ job = NoWorker
    /\ stop = FALSE
    /\ count_values = <<>>
    /\ processed = 0
    /\ signals = <<>>
    /\ files = <<>>
    /\ manifest = [written |-> FALSE, rows |-> <<>>]
    /\ trace = NoTrace

Init ==
    /\ variant \in {"corel", "text_pro"}
    /\ Idle
    /\ fn_args = NoCall
    /\ fn_result = NoResult

Next ==
    \/ start_create
    \/ cancel_create
    \/ GuiStep
    \/ WorkerStep

Spec == Init /\ [][Next]_vars

\* A started QThread is scheduled until run() returns, and the Qt event loop
\* handles every queued signal.
LiveSpec == Spec /\ WF_vars(WorkerStep) /\ WF_vars(GuiStep)

---------------------------------------------------------------------------
(* Direct calls of the pure functions: parse_ranges on a ranges text, and  *)
(* the value sequence of a worker built from start, end and step.          *)

Token(kind, a, b, st) == [kind |-> kind, a |-> a, b |-> b, st |-> st]

\* texts that are neither an integer nor a range of integers
JunkTexts ==
    << <<"a">>,
       <<"1", "-", "a">>,
       <<"1", "-">>,
       <<"1", "-", "2", "-", "3">>,
       <<"1", "-", "2", ":">>,
       <<"5", ":", "2">> >>

TokenText(t) ==
    CASE t.kind = "bare" -> str(t.a)
      [] t.kind = "range" -> str(t.a) \o <<"-">> \o str(t.b)
      [] t.kind = "range_colon" ->
            str(t.a) \o <<"-">> \o str(t.b) \o <<":">> \o str(t.st)
      [] t.kind = "range_x" ->
            str(t.a) \o <<"-">> \o str(t.b) \o <<"x">> \o str(t.st)
      [] OTHER -> JunkTexts[t.a]

Separators == {<<",">>, <<",", " ">>, <<";">>}

RECURSIVE Join(_, _)
Join(toks, sep) ==
    IF toks = <<>> THEN <<>>
    ELSE IF Len(toks) = 1 THEN TokenText(toks[1])
    ELSE TokenText(toks[1]) \o sep \o Join(Tail(toks), sep)

Nums == -1..MaxNum

Tokens ==
    {Token("bare", a, 0, 1) : a \in Nums}
    \cup {Token("range", a, b, 1) : a \in Nums, b \in Nums}
    \cup {Token(k, a, b, st) : k \in {"range_colon", "range_x"},
                               a \in Nums, b \in Nums, st \in 0..2}
    \cup {Token("junk", i, 0, 1) : i \in 1..Len(JunkTexts)}

SmallTokens ==
    {Token("bare", 2, 0, 1), Token("bare", 0, 0, 1), Token("range", 1, 3, 1),
     Token("range", 3, 1, 1), Token("range_colon", 0, 3, 2),
     Token("range_x", 3, 0, 2), Token("junk", 1, 0, 1),
     Token("junk", 2, 0, 1)}

\* "1-5:2, 7, 20-18"
ExampleTokens ==
    <<Token("range_colon", 1, 5, 2), Token("bare", 7, 0, 1),
      Token("range", 20, 18, 1)>>

TokenLists ==
    {<<>>, ExampleTokens}
    \cup {<<t>> : t \in Tokens}
    \cup UNION {[1..n -> SmallTokens] : n \in 2..MaxTokens}

ParseCalls ==
    {[fn |-> "parse_ranges", text |-> Join(ts, sp), toks |-> ts, sep |-> sp,
      start |-> 0, end |-> 0, step |-> 0] :
        ts \in TokenLists, sp \in Separators}

CountCalls ==
    {[fn |-> "count_values", text |-> <<>>, toks |-> <<>>, sep |-> <<>>,
      start |-> a, end |-> b, step |-> st] :
        a \in -1..MaxCount, b \in -1..MaxCount, st \in -1..MaxStep}

CallParseRanges ==
    /\ fn_args.fn = "parse_ranges"
    /\ ~fn_result.done
    /\ fn_result' = [done |-> TRUE,
                     raised |-> parse_ranges(fn_args.text).raised,
                     vals |-> parse_ranges(fn_args.text).vals]
    /\ UNCHANGED <<variant, gui_vars, runs, worker_vars, fn_args>>

CallCountValues ==
    /\ fn_args.fn = "count_values"
    /\ ~fn_result.done
    /\ fn_result' =
          [done |-> TRUE, raised |-> FALSE,
           vals |-> CountValues(variant,
                        CreatorWorker("ok", <<4, 3>>, "Numbers", <<>>,
                                      fn_args.start, fn_args.end,
                                      fn_args.step, <<>>, <<>>, TRUE))]
    /\ UNCHANGED <<variant, gui_vars, runs, worker_vars, fn_args>>

FnInit ==
    /\ variant \in {"corel", "text_pro"}
    /\ Idle
    /\ fn_args \in ParseCalls \cup CountCalls
    /\ fn_result = NoResult

FnNext == CallParseRanges \/ CallCountValues

FnSpec == FnInit /\ [][FnNext]_vars

---------------------------------------------------------------------------
(* Rendering of one value: the canvas and the background fit.              *)
(* An image is its size and the alpha of each pixel; colours play no part  *)
(* in what follows.  Quotients of pixel counts are exact, where Python     *)
(* computes them in floating point.                                        *)

\* int(round(p / q)) for p >= 0, q > 0: Python rounds a half to the even side
Round(p, q) ==
    LET f == p \div q
        r == p % q
    IN  IF 2 * r < q THEN f
        ELSE IF 2 * r > q THEN f + 1
        ELSE IF f % 2 = 0 THEN f ELSE f + 1

Pixels(w, h) == (0..(w - 1)) \X (0..(h - 1))

\* Image.new("RGBA", (w, h), colour) with alpha a in every pixel
NewImage(w, h, a) ==
    [width |-> w, height |-> h, alpha |-> [p \in Pixels(w, h) |-> a]]

\* Image.resize((w, h), LANCZOS) of an image with the same alpha in every
\* pixel: the filter's weights sum to one, so the alpha stays
resize(img, w, h) == NewImage(w, h, img.alpha[<<0, 0>>])

\* Image.crop((left, top, right, bottom)): pixels outside the image are 0
crop(img, left, top, right, bottom) ==
    [width |-> right - left, height |-> bottom - top,
     alpha |-> [p \in Pixels(right - left, bottom - top) |->
                  IF /\ p[1] + left \in 0..(img.width - 1)
                     /\ p[2] + top \in 0..(img.height - 1)
                  THEN img.alpha[<<p[1] + left, p[2] + top>>]
                  ELSE 0]]

Covers(img, x, y, p) ==
    /\ p[1] - x \in 0..(img.width - 1)
    /\ p[2] - y \in 0..(img.height - 1)

\* Image.paste(img, (x, y)) without a mask: the pixels of img, alpha
\* included, replace those of the canvas
paste(canvas, img, x, y) ==
    [canvas EXCEPT !.alpha =
        [p \in Pixels(canvas.width, canvas.height) |->
            IF Covers(img, x, y, p) THEN img.alpha[<<p[1] - x, p[2] - y>>]
            ELSE canvas.alpha[p]]]

\* one band blended through a mask value m: (src*m + dst*(255 - m)) / 255
Blend(src, dst, m) == Round(src * m + dst * (255 - m), 255)

\* Image.paste(img, (x, y), mask=img): every band, alpha included, is
\* blended through the alpha of img
paste_mask(canvas, img, x, y) ==
    [canvas EXCEPT !.alpha =
        [p \in Pixels(canvas.width, canvas.height) |->
            IF Covers(img, x, y, p)
            THEN Blend(img.alpha[<<p[1] - x, p[2] - y>>], canvas.alpha[p],
                       img.alpha[<<p[1] - x, p[2] - y>>])
            ELSE canvas.alpha[p]]]

\* Image.thumbnail((w, h)): the size that keeps the aspect ratio inside
\* (w, h); an image that already fits keeps its size
ThumbnailSize(img, w, h) ==
    IF w >= img.width /\ h >= img.height THEN <<img.width, img.height>>
    ELSE IF w * img.height >= h * img.width
    THEN LET lo == (h * img.width) \div img.height
             hi == (h * img.width + img.height - 1) \div img.height
             Off(n) == IF img.width * h >= n * img.height
                       THEN img.width * h - n * img.height
                       ELSE n * img.height - img.width * h
         IN  <<Max(1, IF Off(lo) <= Off(hi) THEN lo ELSE hi), h>>
    ELSE LET lo == (w * img.height) \div img.width
             hi == (w * img.height + img.width - 1) \div img.width
             Off(n) == IF img.width * n >= w * img.height
                       THEN img.width * n - w * img.height
                       ELSE w * img.height - img.width * n
         IN  <<w, Max(1, IF lo = 0 THEN lo
                         ELSE IF Off(lo) * hi <= Off(hi) * lo THEN lo
                         ELSE hi)>>

thumbnail(img, w, h) ==
    resize(img, ThumbnailSize(img, w, h)[1], ThumbnailSize(img, w, h)[2])

\* mutant of CoverScale: the comparison of the ratios is turned round, which
\* scales the background to fit inside the canvas
CoverScaleInside(bg, target_w, target_h) ==
    IF bg.width * target_h < target_w * bg.height
    THEN <<Round(bg.width * target_h, bg.height), target_h>>
    ELSE <<target_w, Round(bg.height * target_w, bg.width)>>

\* scale_w, scale_h of the cover branch
CoverScale(bg, target_w, target_h) ==
    IF bg.width * target_h > target_w * bg.height
    THEN <<Round(bg.width * target_h, bg.height), target_h>>
    ELSE <<target_w, Round(bg.height * target_w, bg.width)>>

\* the cover branch up to the crop: the scaled size and the crop box
CoverCrop(bg, target_w, target_h) ==
    LET sc == CoverScale(bg, target_w, target_h)
        left == (sc[1] - target_w) \div 2
        top == (sc[2] - target_h) \div 2
    IN  [scale_w |-> sc[1], scale_h |-> sc[2], left |-> left, top |-> top,
         right |-> left + target_w, bottom |-> top + target_h]

\* run(): the canvas with the background on it, before the text is drawn
FitBackground(bg, target_w, target_h, scale_bg) ==
    LET canvas == NewImage(target_w, target_h, 255)
        cc == CoverCrop(bg, target_w, target_h)
        bg_resized == resize(bg, cc.scale_w, cc.scale_h)
        bg_thumb == thumbnail(bg, target_w, target_h)
    IN  IF scale_bg
        THEN paste(canvas, crop(bg_resized, cc.left, cc.top, cc.right,
                                cc.bottom), 0, 0)
        ELSE paste_mask(canvas, bg_thumb,
                        (target_w - bg_thumb.width) \div 2,
                        (target_h - bg_thumb.height) \div 2)

\* run(): target_w, target_h after the auto-fit substitution; corel.py has
\* no auto-fit
CanvasSize(var, j, bg) ==
    IF var = "text_pro" /\ AutoFit(j) THEN <<bg.width, bg.height>>
    ELSE TargetSize(j)

---------------------------------------------------------------------------
(* Rendering of one value: the text fit.                                   *)

\* a font: its point size and whether it is an ImageFont.FreeTypeFont
Font(size, scalable) == [size |-> size, scalable |-> scalable]

\* ImageFont.load_default(): the built-in bitmap font
DefaultFont == Font(10, FALSE)

\* _load_font(size): a TrueType font of that size when a font file is found
_load_font(size, found) == IF found THEN Font(size, TRUE) ELSE DefaultFont

\* draw.textbbox((0, 0), text, font): <<t_w, t_h>>.  A glyph is half as wide
\* as the point size, a line as high as the point size.
textbbox(text, font) ==
    <<Len(text) * Max(1, font.size \div 2), font.size>>

Oversized(text, font, avail_w, avail_h) ==
    textbbox(text, font)[1] > avail_w \/ textbbox(text, font)[2] > avail_h

\* the while loop of the text fit; loaded lists the sizes it loaded
RECURSIVE ShrinkLoop(_, _, _, _, _, _)
ShrinkLoop(text, cur, font, loaded, avail_w, avail_h) ==
    IF Oversized(text, font, avail_w, avail_h) /\ cur > 6
    THEN ShrinkLoop(text, cur - 2, _load_font(cur - 2, TRUE),
                    Append(loaded, cur - 2), avail_w, avail_h)
    ELSE [cur |-> cur, font |-> font, loaded |-> loaded]

\* mutant of Origin2: right and bottom put the origin on the far edge
Origin2FarEdge(align, lo, hi, avail, t) ==
    IF align \in {"left", "top"} THEN 2 * lo
    ELSE IF align \in {"right", "bottom"} THEN 2 * hi
    ELSE 2 * lo + (avail - t)

\* tx or ty before the clamp, doubled so that the half of the centred case
\* stays an integer: lo is x0 or y0, hi is x1 or y1
Origin2(align, lo, hi, avail, t) ==
    IF align \in {"left", "top"} THEN 2 * lo
    ELSE IF align \in {"right", "bottom"} THEN 2 * (hi - t)
    ELSE 2 * lo + (avail - t)

\* mutant of Clamp: the origin is rounded but not clamped
ClampNot(v2) == IF v2 >= 0 THEN Round(v2, 2) ELSE -Round(-v2, 2)

\* int(round(max(0, v))) of the doubled value v2
Clamp(v2) == Round(Max(0, v2), 2)

\* run(): from the text box to the origin; c holds target_w, target_h, the
\* paddings, the alignments, font_size, the text and the font left by
\* the value before (the font of font_size for the first value)
FitText(c) ==
    LET x0 == c.pl
        y0 == c.pt
        x1 == c.target_w - c.pr
        y1 == c.target_h - c.pb
        avail_w == Max(1, x1 - x0)
        avail_h == Max(1, y1 - y0)
        fit == IF Oversized(c.text, c.font, avail_w, avail_h)
                  /\ c.font.scalable
               THEN ShrinkLoop(c.text, c.font_size, c.font, <<>>,
                               avail_w, avail_h)
               ELSE [cur |-> c.font_size, font |-> c.font, loaded |-> <<>>]
        t == textbbox(c.text, fit.font)
    IN  [done |-> TRUE, font |-> fit.font, cur |-> fit.cur,
         loaded |-> fit.loaded, t_w |-> t[1], t_h |-> t[2],
         avail_w |-> avail_w, avail_h |-> avail_h,
         tx |-> Clamp(Origin2(c.halign, x0, x1, avail_w, t[1])),
         ty |-> Clamp(Origin2(c.valign, y0, y1, avail_h, t[2]))]

---------------------------------------------------------------------------
(* Direct calls of the per-value computations of run(): the output name,   *)
(* the canvas with its background, and the text fit.                       *)

NameChars == {"a", ":", "/"}

\* base names and custom texts: short texts with and without forbidden
\* characters, and every forbidden character on its own
Names ==
    UNION {[1..n -> NameChars] : n \in 0..MaxName}
    \cup {<<ch>> : ch \in ForbiddenChars}
    \cup {<<"a", ".", " ", "b">>}

NameCalls(var) ==
    {[fn |-> "output_name", base |-> b, mode |-> "Numbers", value |-> v] :
        b \in Names, v \in -1..MaxCount}
    \cup (IF var = "corel" THEN {}
          ELSE {[fn |-> "output_name", base |-> b, mode |-> "Text",
                 value |-> v] : b \in Names, v \in Names})

\* the background image: its size, and one alpha for all its pixels
Backgrounds ==
    {NewImage(w, h, a) : w \in 1..MaxBg, h \in 1..MaxBg, a \in {0, 128, 255}}

\* px is <<int(round(w_in*dpi)), int(round(h_in*dpi))>>; the width and
\* height boxes of corel.py start at 0.01, which is 1 pixel at 72 dpi
BackgroundCalls(var) ==
    {[fn |-> "background", bg |-> b, px |-> <<w, h>>, scale_bg |-> s] :
        b \in Backgrounds, s \in BOOLEAN,
        w \in (IF var = "corel" THEN 1 ELSE 0)..MaxPx,
        h \in (IF var = "corel" THEN 1 ELSE 0)..MaxPx}

TextDims == {1, MaxDim \div 2, MaxDim}

Paddings == {0, MaxPad}

Texts == UNION {[1..n -> {"8"}] : n \in 1..MaxText}

\* the font run() loads before the loop: the TrueType font of font_size, or
\* the bitmap font when no font file is found
FontsFor(size) == {_load_font(size, TRUE), _load_font(size, FALSE)}

\* font_size is max(4, font_size) of what the caller passes; index counts
\* the values of the loop, the call of the first value has the font that
\* was loaded before the loop
TextCall(w, h, pads, ha, va, fs, f, txt) ==
    [fn |-> "fit_text", index |-> 1,
     c |-> [target_w |-> w, target_h |-> h, pl |-> pads[1], pr |-> pads[2],
            pt |-> pads[3], pb |-> pads[4], halign |-> ha, valign |-> va,
            font_size |-> Max(4, fs), font |-> f, text |-> txt]]

\* the worker a direct call runs in
CallWorker(px, mode, custom_text, base) ==
    CreatorWorker("ok", px, mode, custom_text, 0, 0, 1, base, <<>>, TRUE)

CallOutputName ==
    /\ fn_args.fn = "output_name"
    /\ ~fn_result.done
    /\ LET j == CallWorker(<<4, 3>>, fn_args.mode,
                           IF fn_args.mode = "Text" THEN fn_args.value
                           ELSE <<>>, fn_args.base)
       IN  fn_result' =
              [done |-> TRUE, base_name |-> j.base_name,
               text |-> StrOfValue(j, fn_args.value), out_ext |-> j.out_ext,
               name |-> OutputName(variant, j, fn_args.value),
               path |-> OutputPath(variant, j, fn_args.value)]
    /\ UNCHANGED <<variant, gui_vars, runs, worker_vars, fn_args>>

CallFitBackground ==
    /\ fn_args.fn = "background"
    /\ ~fn_result.done
    /\ LET j == CallWorker(fn_args.px, "Numbers", <<>>, <<>>)
           size == CanvasSize(variant, j, fn_args.bg)
       IN  fn_result' =
              [done |-> TRUE, target |-> TargetSize(j),
               auto |-> (variant = "text_pro" /\ AutoFit(j)), size |-> size,
               cover |-> CoverCrop(fn_args.bg, size[1], size[2]),
               canvas |-> FitBackground(fn_args.bg, size[1], size[2],
                                        fn_args.scale_bg)]
    /\ UNCHANGED <<variant, gui_vars, runs, worker_vars, fn_args>>

CallFitText ==
    /\ fn_args.fn = "fit_text"
    /\ ~fn_result.done
    /\ fn_result' = FitText(fn_args.c)
    /\ UNCHANGED <<variant, gui_vars, runs, worker_vars, fn_args>>

\* run(): the text drawn for value v; corel.py puts the prefix and the
\* suffix around the number, corel_text_pro.py has the custom text in Text
\* mode
LabelText(var, j, prefix, suffix, v) ==
    IF var = "corel" THEN prefix \o str(v) \o suffix
    ELSE IF j.mode = "Numbers" THEN str(v) ELSE j.custom_text

\* mutant of PreviewSize: the preview keeps the computed size
PreviewSizeComputed(var, px, bg) == <<Max(1, px[1]), Max(1, px[2])>>

\* update_preview: tw, th of the preview canvas
PreviewSize(var, px, bg) ==
    LET tw == Max(1, px[1])
        th == Max(1, px[2])
    IN  IF var = "text_pro" /\ (tw <= 1 \/ th <= 1)
        THEN <<bg.width, bg.height>>
        ELSE <<tw, th>>

\* update_preview: the text of the preview
PreviewText(var, mode, custom_text, prefix, suffix, start, ranges) ==
    IF var = "corel"
    THEN prefix \o str(IF ranges # <<>> THEN ranges[1] ELSE start) \o suffix
    ELSE IF mode = "Text" THEN custom_text ELSE str(start)

\* texts of prefix_input and suffix_input (corel.py)
AffixInputs == {<<>>, <<"n">>}

\* the parameters _collect_params gives to update_preview and start_create
PreviewCall(var, bg, px, mode, c, rtext, prefix, suffix) ==
    [fn |-> "preview", bg |-> bg, px |-> px, mode |-> mode,
     custom_text |-> <<"h", "i">>, start |-> c[1], end |-> c[2],
     step |-> c[3], prefix |-> prefix, suffix |-> suffix,
     ranges |-> CollectRanges(var, rtext).vals]

\* update_preview and, with the same parameters, the worker start_create
\* builds, up to the text of its first value
CallPreview ==
    /\ fn_args.fn = "preview"
    /\ ~fn_result.done
    /\ LET text_mode == fn_args.mode = "Text"
           j == CreatorWorker("ok", fn_args.px, fn_args.mode,
                              fn_args.custom_text,
                              IF text_mode THEN 0 ELSE fn_args.start,
                              IF text_mode THEN 0 ELSE fn_args.end,
                              IF text_mode THEN 1 ELSE fn_args.step,
                              <<>>, fn_args.ranges, TRUE)
       IN  fn_result' =
              [done |-> TRUE,
               preview_size |-> PreviewSize(variant, fn_args.px, fn_args.bg),
               preview_text |-> PreviewText(variant, fn_args.mode,
                                            fn_args.custom_text,
                                            fn_args.prefix, fn_args.suffix,
                                            fn_args.start, fn_args.ranges),
               run_size |-> CanvasSize(variant, j, fn_args.bg),
               run_values |-> CountValues(variant, j),
               run_text |-> LabelText(variant, j, fn_args.prefix,
                                      fn_args.suffix,
                                      CountValues(variant, j)[1])]
    /\ UNCHANGED <<variant, gui_vars, runs, worker_vars, fn_args>>

\* the next value of the loop: the variable font holds what the value
\* before left in it, everything else is the worker's configuration
CallFitTextNext ==
    /\ fn_args.fn = "fit_text"
    /\ fn_result.done
    /\ fn_args.index < MaxValues
    /\ \E txt \in Texts :
          /\ fn_args' = [fn_args EXCEPT !.index = @ + 1,
                                        !.c.text = txt,
                                        !.c.font = fn_result.font]
          /\ fn_result' = FitText(fn_args'.c)
    /\ UNCHANGED <<variant, gui_vars, runs, worker_vars>>

RenderInit ==
    /\ variant \in {"corel", "text_pro"}
    /\ Idle
    /\ \/ fn_args \in NameCalls(variant)
       \/ fn_args \in BackgroundCalls(variant)
       \/ \E w \in TextDims, h \in TextDims,
             pads \in Paddings \X Paddings \X Paddings \X Paddings,
             ha \in {"left", "center", "right"},
             va \in {"top", "center", "bottom"},
             fs \in 3..MaxFont, txt \in Texts :
              \E f \in FontsFor(Max(4, fs)) :
                  fn_args = TextCall(w, h, pads, ha, va, fs, f, txt)
       \/ \E bw \in 1..MaxBg, bh \in 1..MaxBg,
             w \in (IF variant = "corel" THEN 1 ELSE 0)..MaxPx,
             h \in (IF variant = "corel" THEN 1 ELSE 0)..MaxPx,
             mode \in ModeInputs(variant), c \in CounterInputs,
             rtext \in {r \in RangesInputs : ~CollectRanges(variant, r).raised},
             prefix \in AffixInputs, suffix \in AffixInputs :
              /\ variant = "text_pro" =>
                     rtext = <<>> /\ prefix = <<>> /\ suffix = <<>>
              /\ fn_args = PreviewCall(variant, NewImage(bw, bh, 255),
                                       <<w, h>>, mode, c, rtext, prefix,
                                       suffix)
    /\ fn_result = NoResult

RenderNext ==
    \/ CallOutputName
    \/ CallFitBackground
    \/ CallFitText
    \/ CallFitTextNext
    \/ CallPreview

RenderSpec == RenderInit /\ [][RenderNext]_vars

---------------------------------------------------------------------------
(* Vocabulary of the properties.                                           *)

Last(q) == q[Len(q)]

Finished == pc = "finished"

IsTerminal(x) == x.sig \in {"done", "error"}

IsProgress(x) == x.sig = "progress"

IsEstimate(x) == x.sig = "start_estimate"

TerminalSignals == SelectSeq(signals, IsTerminal)

ProgressSignals == SelectSeq(signals, IsProgress)

EstimateSignals == SelectSeq(signals, IsEstimate)

EndedWithError == signals # <<>> /\ Last(signals).sig = "error"

ValuesOf(rs) == [i \in 1..Len(rs) |-> rs[i].value]

\* the stop flag was found set at the check of value N + 1, 0 <= N < M
StoppedAfter(N) == trace.stop_seen = N + 1 /\ N < total

\* a run that rendered every value ends with this notification
CompletedRunEndsWithDone ==
    (Finished /\ total > 0 /\ Len(files) = total) => Last(signals) = DoneSignal

---------------------------------------------------------------------------
(* Cancellation, failure and the manifest (C1 - C4).                       *)

\* C1, as stated: if the stop flag is found set at the check that precedes
\* value N+1 of an M-value sequence (0 <= N < M), the run ends with exactly N
\* image files written and, when N >= 1, a manifest with exactly N rows that
\* are the first N values in order; no manifest when N = 0.
Claim_C1_CancellationCount ==
    \A N \in 0..Len(count_values) :
        (Finished /\ StoppedAfter(N)) =>
            /\ Len(files) = N
            /\ N >= 1 => /\ manifest.written
                         /\ ValuesOf(manifest.rows) = SubSeq(count_values, 1, N)
            /\ N = 0 => ~manifest.written

\* C1, amended: the same, but the manifest with the first N values exists
\* only if to_excel did not raise; if it raised (which is only logged) the
\* run leaves no manifest.
Thm_C1_CancellationCount ==
    \A N \in 0..Len(count_values) :
        (Finished /\ StoppedAfter(N)) =>
            /\ Len(files) = N
            /\ ValuesOf(files) = SubSeq(count_values, 1, N)
            /\ (N >= 1 /\ ~trace.manifest_failed) =>
                    /\ manifest.written
                    /\ ValuesOf(manifest.rows) = SubSeq(count_values, 1, N)
            /\ (N = 0 \/ trace.manifest_failed) => ~manifest.written

\* a run stopped after at least one and before the last value, report written
Wit_C1_StoppedMidway ==
    /\ Finished
    /\ trace.stop_seen >= 2
    /\ trace.stop_seen <= total
    /\ manifest.written
    /\ Len(manifest.rows) = trace.stop_seen - 1

\* C2, as stated: a cancelled run (stopped before all M values were
\* rendered) ends with a terminal notification that differs from the one of
\* a run that rendered every value, which is done(output_folder)
\* (CompletedRunEndsWithDone).
Claim_C2_CancelledDistinct ==
    (Finished /\ trace.stop_seen > 0 /\ ~EndedWithError) =>
        Last(signals) # DoneSignal

\* C3: if saving the image of value K fails, the worker emits error and never
\* done, ends at once, renders and saves no value after K, tries K only
\* once, and the files of the values before K stay as they were written.
Thm_C3_SaveFailureFatal ==
    \A K \in 1..Len(count_values) :
        trace.failed_at = K =>
            /\ Finished
            /\ Last(signals).sig = "error"
            /\ Len(TerminalSignals) = 1
            /\ trace.started = K
            /\ trace.attempts = K
            /\ processed = K - 1
            /\ ValuesOf(files) = SubSeq(count_values, 1, K - 1)

\* the save of the second or a later value failed
Wit_C3_SaveFailedAfterFirst ==
    /\ trace.failed_at >= 2
    /\ Len(files) = trace.failed_at - 1
    /\ Finished

\* C4, as stated: whenever a run ends (completed, cancelled or failed) after
\* at least one value was saved, the manifest has been written exactly once,
\* at the end of the run; when no value succeeded no manifest is written.
Claim_C4_ManifestPersistence ==
    /\ (manifest.written \/ trace.manifest_writes > 0) =>
            pc \in {"done", "finished"}
    /\ Finished =>
            /\ Len(files) >= 1 =>
                    manifest.written /\ trace.manifest_writes = 1
            /\ Len(files) = 0 =>
                    ~manifest.written /\ trace.manifest_writes = 0

\* C4, amended: a run that leaves the loop normally or by the stop check
\* (completed or cancelled) after at least one saved value calls to_excel
\* exactly once, at the end of the run, and the manifest exists unless that
\* call raised; a run that ends with error (save failure, worker exception,
\* background not usable) or that saved no value writes no manifest.
Thm_C4_ManifestPersistence ==
    /\ trace.manifest_writes <= 1
    /\ (manifest.written \/ trace.manifest_writes > 0) =>
            pc \in {"done", "finished"}
    /\ Finished =>
            IF EndedWithError \/ Len(files) = 0
            THEN ~manifest.written /\ trace.manifest_writes = 0
            ELSE /\ trace.manifest_writes = 1
                 /\ manifest.written <=> ~trace.manifest_failed
                 /\ manifest.written =>
                        ValuesOf(manifest.rows) = ValuesOf(files)

\* a run ended with done after saving something, and its manifest is there
Wit_C4_ManifestWritten ==
    /\ Finished
    /\ ~EndedWithError
    /\ Len(files) >= 1
    /\ manifest.written
    /\ trace.manifest_writes = 1

---------------------------------------------------------------------------
(* Signals of a run (C5, C6) and the response to request_stop (C7).        *)

\* C5: every started run terminates; it emits exactly one of done and error,
\* and nothing (progress, preview, log, estimate) after that signal.
Thm_C5_OneTerminalSignal ==
    /\ [](/\ Len(TerminalSignals) <= 1
          /\ Len(TerminalSignals) = 1 =>
                Finished /\ IsTerminal(Last(signals))
          /\ Finished => Len(TerminalSignals) = 1)
    /\ [](isRunning => <>Finished)

\* a run that emitted signals before its terminal one has ended
Wit_C5_RunEnded ==
    /\ Finished
    /\ Len(signals) >= 4
    /\ Len(TerminalSignals) = 1

\* the part of C6 that holds as stated: one estimate, every progress carries
\* it as total, the processed components are 1, 2, 3, ... and never above
\* total, one per saved value
ProgressWellFormed ==
    /\ ProgressSignals # <<>> => Len(EstimateSignals) = 1
    /\ \A i \in 1..Len(ProgressSignals) :
          /\ ProgressSignals[i].b = EstimateSignals[1].a
          /\ ProgressSignals[i].a = i
          /\ ProgressSignals[i].a <= ProgressSignals[i].b
    /\ pc \notin {"progress"} => Len(ProgressSignals) = Len(files)

\* C6, as stated: ... and the last notification of the run has
\* processed < total only when the run was cancelled.
Claim_C6_ProgressSequence ==
    /\ ProgressWellFormed
    /\ (Finished /\ ProgressSignals # <<>>
          /\ Last(ProgressSignals).a < Last(ProgressSignals).b) =>
            trace.stop_seen > 0

\* C6, amended: ... has processed < total only when the run was cancelled
\* or ended with error (a save failure or a worker exception).
Thm_C6_ProgressSequence ==
    /\ ProgressWellFormed
    /\ (Finished /\ ProgressSignals # <<>>
          /\ Last(ProgressSignals).a < Last(ProgressSignals).b) =>
            (trace.stop_seen > 0 \/ EndedWithError)

\* a cancelled run whose last progress is short of total
Wit_C6_ShortProgress ==
    /\ Finished
    /\ trace.stop_seen > 0
    /\ Len(ProgressSignals) >= 2
    /\ Last(ProgressSignals).a < Last(ProgressSignals).b

\* the part of C7 that holds as stated: after request_stop at most one more
\* image is saved, and only the value in flight; no further value is started;
\* once the flag is seen the worker is in the report block or past it
StopIsBounded ==
    trace.stop_called =>
        /\ Len(files) <= trace.stop_files + 1
        /\ Len(files) > trace.stop_files =>
                trace.stop_pc \in {"render", "save"}
        /\ trace.started = trace.stop_started
        /\ trace.stop_seen > 0 => pc \in {"manifest", "done", "finished"}

\* C7, as stated: once request_stop has been called during a run, the worker
\* saves at most one more image, starts no further value, then goes straight
\* to manifest writing and its terminal signal.
\* (Stated for a request that arrives while the loop over the values runs.)
Claim_C7_BoundedStop ==
    /\ StopIsBounded
    /\ (trace.stop_called /\ Finished
          /\ trace.stop_pc \in {"check", "render", "save", "progress",
                                "preview"}) =>
            trace.reported /\ Len(TerminalSignals) = 1

\* C7, amended: ... then goes straight to the report block and done, unless
\* the run ends with error first (the value in flight fails to render or to
\* save, or the background is not usable); then there is no report block.
Thm_C7_BoundedStop ==
    /\ StopIsBounded
    /\ (trace.stop_called /\ Finished) =>
            /\ Len(TerminalSignals) = 1
            /\ trace.reported <=> ~EndedWithError
            /\ ~EndedWithError =>
                  (trace.stop_seen > 0 \/ Len(files) = total)

\* stop was requested while a value was in flight; that value was saved and
\* the next check ended the loop
Wit_C7_InFlightSaved ==
    /\ Finished
    /\ trace.stop_called
    /\ Len(files) = trace.stop_files + 1
    /\ trace.stop_seen > 0
    /\ trace.reported

---------------------------------------------------------------------------
(* The value sequence (C8) and the ranges grammar (C9, C10).               *)

Abs(n) == IF n < 0 THEN -n ELSE n

\* start, start +- st, ... : the n values of an arithmetic sequence
Arithmetic(start, delta, n) == [i \in 1..n |-> start + (i - 1) * delta]

\* the sequence the grammar and the simple mode describe: from a towards b
\* in steps of st >= 1, as far as it does not pass b
Towards(a, b, st) ==
    Arithmetic(a, IF a <= b THEN st ELSE -st, (Abs(b - a) \div st) + 1)

InSeq(x, q) == \E i \in 1..Len(q) : q[i] = x

\* C8: for all start, end and step (step coerced to >= 1) the value list is
\* start, start+step, ... up to the largest value <= end when start <= end,
\* and start, start-step, ... down to the smallest value >= end otherwise;
\* it is never empty, begins with start, is strictly monotonic, and contains
\* end exactly when |end - start| is a multiple of step.
Thm_C8_SimpleSequence ==
    (fn_args.fn = "count_values" /\ fn_result.done) =>
        LET a == fn_args.start
            b == fn_args.end
            st == Max(1, fn_args.step)
            v == fn_result.vals
        IN  /\ v = Towards(a, b, st)
            /\ v # <<>>
            /\ v[1] = a
            /\ \A i \in 1..(Len(v) - 1) :
                  IF a <= b THEN v[i] < v[i + 1] ELSE v[i] > v[i + 1]
            /\ IF a <= b
               THEN Last(v) <= b /\ Last(v) + st > b
               ELSE Last(v) >= b /\ Last(v) - st < b
            /\ InSeq(b, v) <=> (Abs(b - a) % st = 0)

\* a descending sequence of several values that steps over end
Wit_C8_DescendingPastEnd ==
    /\ fn_args.fn = "count_values"
    /\ fn_result.done
    /\ fn_args.start > fn_args.end
    /\ fn_args.step >= 2
    /\ Len(fn_result.vals) >= 2
    /\ ~InSeq(fn_args.end, fn_result.vals)

WellFormed(t) == t.kind # "junk"

\* what the grammar says a well-formed token stands for
Expansion(t) ==
    IF t.kind = "bare" THEN <<t.a>> ELSE Towards(t.a, t.b, Max(1, t.st))

RECURSIVE Expansions(_)
Expansions(toks) ==
    IF toks = <<>> THEN <<>>
    ELSE (IF WellFormed(Head(toks)) THEN Expansion(Head(toks)) ELSE <<>>)
             \o Expansions(Tail(toks))

IsFirstAt(q, i) == \A j \in 1..(i - 1) : q[j] # q[i]

\* q without the later duplicates
RECURSIVE FirstSeenFrom(_, _)
FirstSeenFrom(q, i) ==
    IF i > Len(q) THEN <<>>
    ELSE (IF IsFirstAt(q, i) THEN <<q[i]>> ELSE <<>>) \o FirstSeenFrom(q, i + 1)

FirstSeen(q) == FirstSeenFrom(q, 1)

NoRepeats(q) == \A i, j \in 1..Len(q) : q[i] = q[j] => i = j

\* C9, as stated: for a comma/semicolon-separated list of well-formed tokens
\* parse_ranges returns the concatenation of the tokens' expansions (a bare
\* integer gives itself, A-B[:STEP] steps from A towards B) with later
\* duplicates removed, first-seen order kept, no repeated element.
Claim_C9_RangesGrammar ==
    (/\ fn_args.fn = "parse_ranges"
     /\ fn_result.done
     /\ \A i \in 1..Len(fn_args.toks) : WellFormed(fn_args.toks[i])) =>
         /\ ~fn_result.raised
         /\ fn_result.vals = FirstSeen(Expansions(fn_args.toks))
         /\ NoRepeats(fn_result.vals)

\* C10, as stated: for every input string parse_ranges returns a list without
\* raising; a token whose integer parts cannot be parsed is dropped silently
\* and the well-formed tokens around it still contribute their values.
\* (Stated for texts whose numbers carry no sign, so that what TLC reports is
\* a token that cannot be parsed and not a negative number.)
Claim_C10_PermissiveParsing ==
    (/\ fn_args.fn = "parse_ranges"
     /\ fn_result.done
     /\ \A i \in 1..Len(fn_args.toks) :
           fn_args.toks[i].a >= 0 /\ fn_args.toks[i].b >= 0) =>
         /\ ~fn_result.raised
         /\ fn_result.vals = FirstSeen(Expansions(fn_args.toks))

---------------------------------------------------------------------------
(* Bare integers and Text mode (C11, C12).                                 *)

\* C11, as stated: for every integer n (positive, zero or negative) a token
\* that is the decimal text of n contributes exactly the value n to the
\* sequence parse_ranges returns.
Claim_C11_BareIntegers ==
    (/\ fn_args.fn = "parse_ranges"
     /\ fn_result.done
     /\ Len(fn_args.toks) = 1
     /\ fn_args.toks[1].kind = "bare") =>
         /\ ~fn_result.raised
         /\ fn_result.vals = <<fn_args.toks[1].a>>

\* C12: in Text mode the worker's sequence is the single literal string
\* whatever start, end and step are; the estimate is 1 and at most one image
\* file and one manifest row are produced.
Thm_C12_TextModeOneValue ==
    (job.mode = "Text" /\ pc # "none") =>
        /\ \A a, b \in -1..MaxCount, s \in 1..MaxStep :
              CountValues(variant, [job EXCEPT !.start_count = a,
                                               !.end_count = b,
                                               !.step = s])
                  = <<job.custom_text>>
        /\ pc \notin {"start", "build"} /\ job.bg = "ok" =>
              count_values = <<job.custom_text>>
        /\ \A i \in 1..Len(EstimateSignals) : EstimateSignals[i].a = 1
        /\ Len(files) <= 1
        /\ Len(manifest.rows) <= 1
        /\ \A i \in 1..Len(files) : files[i].value = job.custom_text

\* a Text-mode run that ended with its one file and its one manifest row
Wit_C12_TextRunDone ==
    /\ job.mode = "Text"
    /\ Finished
    /\ Len(EstimateSignals) = 1
    /\ Len(files) = 1
    /\ manifest.written
    /\ Len(manifest.rows) = 1

---------------------------------------------------------------------------
(* File names and the per-value rendering (C13 - C17).                     *)

KeptPositions(s) == {i \in 1..Len(s) : s[i] \notin ForbiddenChars}

\* r is s without its forbidden characters, the others kept in order
IsSanitised(r, s) ==
    /\ Len(r) = Cardinality(KeptPositions(s))
    /\ \A i \in KeptPositions(s) :
          r[Cardinality({k \in KeptPositions(s) : k <= i})] = s[i]

Fits == fn_result.t_w <= fn_result.avail_w /\ fn_result.t_h <= fn_result.avail_h

\* C14, as stated: for a scalable font and any configured size (the size
\* box offers 6 and more) the shrink loop terminates, within the steps of 2
\* that lie between the size and 6; when it ends the measured text fits the
\* available rectangle in both axes or the point size has reached the floor
\* of 6; the loop never selects a point size below 6.  (Stated for the
\* first value of a run, whose font is the one loaded at the configured
\* size.)
Claim_C14_ShrinkLoop ==
    (/\ fn_args.fn = "fit_text"
     /\ fn_result.done
     /\ fn_args.c.font = Font(fn_args.c.font_size, TRUE)
     /\ fn_args.c.font_size >= 6) =>
         /\ 2 * Len(fn_result.loaded) <= fn_args.c.font_size - 6 + 1
         /\ Fits \/ fn_result.cur = 6
         /\ \A i \in 1..Len(fn_result.loaded) : fn_result.loaded[i] >= 6

\* C15: with horizontal alignment right the origin x is (canvas width -
\* right padding) - text width, clamped to >= 0; with vertical alignment
\* bottom the origin y is (canvas height - bottom padding) - text height,
\* clamped to >= 0; for all nine alignments the origin is a pair of
\* non-negative integers.
Thm_C15_AlignmentOrigin ==
    (fn_args.fn = "fit_text" /\ fn_result.done) =>
        LET c == fn_args.c
        IN  /\ c.halign = "right" =>
                  fn_result.tx = Max(0, (c.target_w - c.pr) - fn_result.t_w)
            /\ c.valign = "bottom" =>
                  fn_result.ty = Max(0, (c.target_h - c.pb) - fn_result.t_h)
            /\ fn_result.tx \in Nat
            /\ fn_result.ty \in Nat

\* right and bottom: the text has room to the left, and is too high
Wit_C15_RightBottom ==
    /\ fn_args.fn = "fit_text"
    /\ fn_result.done
    /\ fn_args.c.halign = "right"
    /\ fn_args.c.valign = "bottom"
    /\ fn_result.tx > 0
    /\ (fn_args.c.target_h - fn_args.c.pb) - fn_result.t_h < 0
    /\ fn_result.ty = 0

\* C16, as stated: for every source image (one with transparent pixels
\* included) and every target size the Cover-mode canvas has exactly the
\* requested width and height and each of its pixels is fully opaque.
Claim_C16_CoverOpaque ==
    (fn_args.fn = "background" /\ fn_result.done /\ fn_args.scale_bg) =>
        /\ fn_result.canvas.width = fn_result.size[1]
        /\ fn_result.canvas.height = fn_result.size[2]
        /\ DOMAIN fn_result.canvas.alpha =
              Pixels(fn_result.size[1], fn_result.size[2])
        /\ \A p \in DOMAIN fn_result.canvas.alpha :
              fn_result.canvas.alpha[p] = 255

\* C17, as stated (corel_text_pro.py): the canvas size is replaced by the
\* background's pixel size when, and only when, the computed width and the
\* computed height are both <= 1; when only one is, the computed size is
\* kept; both canvas dimensions are always >= 1.
Claim_C17_AutoFitTrigger ==
    (fn_args.fn = "background" /\ fn_result.done /\ variant = "text_pro") =>
        LET both == Max(1, fn_args.px[1]) <= 1 /\ Max(1, fn_args.px[2]) <= 1
        IN  /\ fn_result.auto <=> both
            /\ fn_result.size =
                  IF both THEN <<fn_args.bg.width, fn_args.bg.height>>
                  ELSE <<Max(1, fn_args.px[1]), Max(1, fn_args.px[2])>>
            /\ fn_result.size[1] >= 1 /\ fn_result.size[2] >= 1

\* C17, amended: the size is replaced when, and only when, at least one of
\* the computed width and height is <= 1 (corel.py never replaces it); both
\* canvas dimensions are always >= 1.
Thm_C17_AutoFitTrigger ==
    (fn_args.fn = "background" /\ fn_result.done) =>
        LET one == \/ Max(1, fn_args.px[1]) <= 1
                   \/ Max(1, fn_args.px[2]) <= 1
            auto == variant = "text_pro" /\ one
        IN  /\ fn_result.auto <=> auto
            /\ fn_result.size =
                  IF auto THEN <<fn_args.bg.width, fn_args.bg.height>>
                  ELSE <<Max(1, fn_args.px[1]), Max(1, fn_args.px[2])>>
            /\ fn_result.canvas.width = fn_result.size[1]
            /\ fn_result.canvas.height = fn_result.size[2]
            /\ fn_result.size[1] >= 1 /\ fn_result.size[2] >= 1

\* width 0 and a height of several pixels: the background's size is used
Wit_C17_OneSideZero ==
    /\ fn_args.fn = "background"
    /\ fn_result.done
    /\ variant = "text_pro"
    /\ fn_args.px[1] = 0
    /\ fn_args.px[2] >= 2
    /\ fn_result.size = <<fn_args.bg.width, fn_args.bg.height>>
    /\ fn_result.size # <<1, fn_args.px[2]>>

---------------------------------------------------------------------------
(* Configuration errors, the manifest failure and the estimate (C18 - C20). *)

ConfigDialogs == {"Missing background", "Cannot create output folder"}

\* C18: if the background path is missing or the image cannot be opened the
\* worker emits error exactly once and stops before any estimate or
\* progress, with no image file and no manifest written; in the GUI a
\* missing background or an output folder that cannot be created starts no
\* worker and leaves the create and cancel buttons as they were.
Thm_C18_ConfigurationError ==
    /\ []((job.bg \in {"missing", "unreadable"} /\ pc # "none") =>
            /\ EstimateSignals = <<>>
            /\ ProgressSignals = <<>>
            /\ files = <<>>
            /\ ~manifest.written
            /\ trace.started = 0
            /\ pc \in {"start", "finished"}
            /\ Finished =>
                  /\ Len(TerminalSignals) = 1
                  /\ Last(signals).sig = "error")
    /\ [][(dialog' \in ConfigDialogs /\ dialog' # dialog) =>
              UNCHANGED <<runs, worker_vars, create_enabled,
                          cancel_enabled>>]_vars

\* a worker that could not open its background has ended, and a later Create
\* was refused because the output folder could not be made
Wit_C18_BothRefusals ==
    /\ Finished
    /\ job.bg = "unreadable"
    /\ Len(TerminalSignals) = 1
    /\ dialog = "Cannot create output folder"
    /\ runs = 1

\* C19: if writing the manifest raises, the failure is reported only as a
\* log message, the worker still emits done and not error, and the image
\* files already written stay as they are.
Thm_C19_ManifestFailureNonFatal ==
    trace.manifest_failed =>
        /\ pc \in {"done", "finished"}
        /\ Last(signals).sig \in {"log", "done"}
        /\ \A i \in 1..Len(signals) : signals[i].sig # "error"
        /\ \E i \in 1..Len(signals) :
              signals[i].sig = "log" /\ signals[i].msg = "Excel error"
        /\ Finished => Last(signals) = DoneSignal
        /\ Len(files) = processed
        /\ ValuesOf(files) = SubSeq(count_values, 1, processed)
        /\ ~manifest.written

\* two images saved, the manifest write failed, the run ended
Wit_C19_FailedManifestDone ==
    /\ Finished
    /\ trace.manifest_failed
    /\ Len(files) >= 2

\* C20: in every run that gets past the configuration checks the sequence
\* length is emitted once through start_estimate, before the first value is
\* rendered and before any progress notification, and it is the total of
\* every later progress notification.
Thm_C20_EstimateFirst ==
    /\ pc \in {"start", "build"} =>
          /\ EstimateSignals = <<>>
          /\ ProgressSignals = <<>>
          /\ trace.started = 0
    /\ (pc \notin {"none", "start", "build"} /\ job.bg = "ok") =>
          /\ Len(EstimateSignals) = 1
          /\ EstimateSignals[1].a = Len(count_values)
          /\ \A i \in 1..Len(signals) :
                signals[i].sig \in {"progress", "preview"} =>
                    /\ \E k \in 1..(i - 1) : signals[k].sig = "start_estimate"
                    /\ signals[i].sig = "progress" =>
                          signals[i].b = EstimateSignals[1].a

\* a run of several values, each with its progress notification
Wit_C20_SeveralProgress ==
    /\ Finished
    /\ Len(EstimateSignals) = 1
    /\ EstimateSignals[1].a >= 2
    /\ Len(ProgressSignals) = EstimateSignals[1].a

---------------------------------------------------------------------------
(* C21: single worker.                                                     *)

\* the done or error handler of the current worker has run
TerminalHandled == delivered > 0 /\ IsTerminal(signals[delivered])

\* C21: at most one worker runs at a time: a worker is only started while
\* none is running, and while one is running the Create button is disabled.
\* The button stays disabled from start_create until the done or error
\* handler runs; once that handler has run the GUI is back in its idle
\* state (Create enabled, Cancel disabled), and every started run gets
\* there, so a new run can always be started again.
Thm_C21_SingleWorker ==
    /\ [](isRunning => ~create_enabled)
    /\ []((pc # "none" /\ ~TerminalHandled) => ~create_enabled)
    /\ [](TerminalHandled => (create_enabled /\ ~cancel_enabled /\ ~isRunning))
    /\ [][runs' = runs + 1
            => (~isRunning /\ isRunning' /\ ~create_enabled')]_vars
    /\ (~create_enabled) ~> (create_enabled /\ ~cancel_enabled)

\* a second run was started after the first one ended, and has ended too
Wit_C21_SecondRunEnded ==
    /\ runs = 2
    /\ TerminalHandled
    /\ create_enabled
    /\ ~cancel_enabled

---------------------------------------------------------------------------
(* C22: collision-free output within a run.                                *)

\* C22: the value sequence of a run holds no value twice, distinct values
\* of the sequence are saved under distinct paths, and so no image written
\* by the run is overwritten by a later image of the same run.
Thm_C22_CollisionFree ==
    /\ NoRepeats(count_values)
    /\ \A i, k \in 1..Len(count_values) :
           i # k => OutputPath(variant, job, count_values[i])
                        # OutputPath(variant, job, count_values[k])
    /\ \A i, k \in 1..Len(files) : files[i].path = files[k].path => i = k

\* the ranges text "2,1,2" named the value 2 twice; two images were saved
Wit_C22_RepeatedTokenSavedOnce ==
    /\ variant = "corel"
    /\ job.ranges = <<2, 1>>
    /\ Len(files) = 2
    /\ Finished

---------------------------------------------------------------------------
(* C23: history-independent font size.                                     *)

\* the font of the configured size, as run() loads it before the loop
BaseFont(c) == _load_font(c.font_size, c.font.scalable)

\* C23, as stated: every value is drawn with the font the text fit gives
\* when its first measurement uses the font of the configured size, whatever
\* the values before needed; in particular a value that fits with the font
\* of the configured size is drawn with that font.
Claim_C23_HistoryIndependentFont ==
    (fn_args.fn = "fit_text" /\ fn_result.done)
        => /\ fn_result.font
                  = FitText([fn_args.c EXCEPT !.font = BaseFont(fn_args.c)]).font
           /\ ~Oversized(fn_args.c.text, BaseFont(fn_args.c),
                         fn_result.avail_w, fn_result.avail_h)
                  => fn_result.font = BaseFont(fn_args.c)

---------------------------------------------------------------------------
(* C24: cover geometry.                                                    *)

\* a cover call has returned
CoverDone == fn_args.fn = "background" /\ fn_result.done /\ fn_args.scale_bg

\* C24: in cover mode the scaled background is at least as large as the
\* canvas in both axes and exactly as large in one; the crop offsets are
\* (scale_w - target_w) // 2 and (scale_h - target_h) // 2 and are not
\* negative; the crop box lies inside the scaled image; what is trimmed on
\* opposite sides differs by at most one pixel.
Thm_C24_CoverGeometry ==
    CoverDone =>
        LET cc == fn_result.cover
            target_w == fn_result.size[1]
            target_h == fn_result.size[2]
        IN  /\ cc.scale_w >= target_w
            /\ cc.scale_h >= target_h
            /\ cc.scale_w = target_w \/ cc.scale_h = target_h
            /\ cc.left = (cc.scale_w - target_w) \div 2
            /\ cc.top = (cc.scale_h - target_h) \div 2
            /\ cc.left >= 0
            /\ cc.top >= 0
            /\ cc.right <= cc.scale_w
            /\ cc.bottom <= cc.scale_h
            /\ (cc.scale_w - cc.right) - cc.left \in {0, 1}
            /\ (cc.scale_h - cc.bottom) - cc.top \in {0, 1}
            /\ fn_result.canvas.width = target_w
            /\ fn_result.canvas.height = target_h

\* a cover call that trimmed an odd number of columns
Wit_C24_OddTrim ==
    /\ CoverDone
    /\ fn_result.cover.scale_w > fn_result.size[1]
    /\ (fn_result.cover.scale_w - fn_result.size[1]) % 2 = 1

---------------------------------------------------------------------------
(* C25: the text box stays inside the available rectangle.                 *)

\* the paddings leave room on the canvas and the final text box fits
RoomAndFit ==
    /\ fn_args.fn = "fit_text"
    /\ fn_result.done
    /\ fn_args.c.pl + fn_args.c.pr < fn_args.c.target_w
    /\ fn_args.c.pt + fn_args.c.pb < fn_args.c.target_h
    /\ fn_result.t_w <= fn_result.avail_w
    /\ fn_result.t_h <= fn_result.avail_h

\* C25: when the paddings sum to less than the canvas in both axes and the
\* final text size is at most the available size, then for every alignment
\* the box of size (t_w, t_h) at the origin (tx, ty) lies inside the
\* rectangle (x0, y0, x1, y1): x0 <= tx, tx + t_w <= x1, y0 <= ty and
\* ty + t_h <= y1.
Thm_C25_TextInsideRectangle ==
    RoomAndFit =>
        LET c == fn_args.c
        IN  /\ c.pl <= fn_result.tx
            /\ fn_result.tx + fn_result.t_w <= c.target_w - c.pr
            /\ c.pt <= fn_result.ty
            /\ fn_result.ty + fn_result.t_h <= c.target_h - c.pb

\* a fitting text, centred with an odd number of spare columns and put at
\* the bottom, on a canvas with paddings on every side
Wit_C25_CentredOddSlack ==
    /\ RoomAndFit
    /\ fn_args.c.halign = "center"
    /\ fn_args.c.valign = "bottom"
    /\ (fn_result.avail_w - fn_result.t_w) % 2 = 1
    /\ fn_result.avail_h > fn_result.t_h
    /\ fn_args.c.pl > 0 /\ fn_args.c.pr > 0
    /\ fn_args.c.pt > 0 /\ fn_args.c.pb > 0

---------------------------------------------------------------------------
(* C26: ranges take precedence, with silent fallback.                      *)

\* the worker of corel.py has built its value sequence
SequenceBuilt == variant = "corel" /\ EstimateSignals # <<>>

\* the run went through every value: no stop, no failure
RanThrough ==
    /\ Finished
    /\ trace.stop_seen = 0
    /\ trace.failed_at = 0
    /\ trace.raised_at = 0

\* C26: in corel.py the worker's value sequence is the list parse_ranges
\* gave for the ranges text whenever that list is not empty, whatever start,
\* end and step are; when the text is empty or no value comes out of it,
\* the sequence is the simple start/end/step one.  A run that goes through
\* renders exactly that sequence.
Thm_C26_RangesPrecedence ==
    SequenceBuilt =>
        LET parsed == parse_ranges(trace.ranges_text)
            simple == SimpleSequence(job.start_count, job.end_count, job.step)
        IN  /\ ~parsed.raised
            /\ parsed.vals # <<>> => count_values = parsed.vals
            /\ parsed.vals = <<>> => count_values = simple
            /\ RanThrough => ValuesOf(files) = count_values

\* the ranges text "a" holds no value: the run rendered the simple sequence
Wit_C26_FallbackRendered ==
    /\ SequenceBuilt
    /\ trace.ranges_text # <<>>
    /\ parse_ranges(trace.ranges_text).vals = <<>>
    /\ RanThrough
    /\ Len(files) = 3

---------------------------------------------------------------------------
(* C27: per-value event order.                                             *)

IsPrefix(p, q) == Len(p) <= Len(q) /\ SubSeq(q, 1, Len(p)) = p

IsOutlinePass(e) == e.op = "draw_text" /\ e.colour = "black"

IsPreview(x) == x.sig = "preview"

\* what the claim lists for one rendered value of worker j
ValueOrder(j) ==
    <<Event("stop_check"), Event("background"), Event("text_fit")>>
    \o (IF j.outline
        THEN <<DrawText(-1, 0, "black"), DrawText(1, 0, "black"),
               DrawText(0, -1, "black"), DrawText(0, 1, "black"),
               DrawText(-1, -1, "black"), DrawText(1, 1, "black"),
               DrawText(-1, 1, "black"), DrawText(1, -1, "black")>>
        ELSE <<>>)
    \o <<DrawText(0, 0, "font_color"), Event("save"), Event("progress"),
         Event("preview")>>

\* a value went through its whole loop body
ValueCompleted == pc = "check" /\ processed > 0

---------------------------------------------------------------------------
(* C28: the preview matches the worker's first frame.                      *)

PreviewDone == fn_args.fn = "preview" /\ fn_result.done

\* C28: for the same parameters and background update_preview computes the
\* canvas size run() computes, the auto-fit substitution included, and the
\* text of the first value the worker renders: the first ranges value or
\* start between prefix and suffix in corel.py, the custom text or start in
\* corel_text_pro.py.
Thm_C28_PreviewMatchesFirstFrame ==
    PreviewDone =>
        /\ fn_result.preview_size = fn_result.run_size
        /\ fn_result.preview_text = fn_result.run_text
        /\ fn_result.run_values # <<>>

\* corel_text_pro.py, numbers counted down from 2, width 0: auto-fit gives
\* the size of a background that is not 1x1
Wit_C28_AutoFitPreview ==
    /\ PreviewDone
    /\ variant = "text_pro"
    /\ fn_args.mode = "Numbers"
    /\ fn_args.px[1] = 0
    /\ fn_args.px[2] >= 2
    /\ fn_result.preview_size = <<fn_args.bg.width, fn_args.bg.height>>
    /\ fn_args.bg.width >= 2
    /\ fn_result.preview_text = <<"2">>
    /\ Len(fn_result.run_values) = 2

---------------------------------------------------------------------------
(* C29: cancellation does not leak across runs.                            *)

\* C29: every Create builds a new worker whose stop flag is false; the flag
\* of a worker is only set, by a request made while that worker runs, and
\* is never cleared; a request made when no worker is running changes
\* nothing.  So a set flag always belongs to a request made during the
\* current run, and no request reaches a later run.
Thm_C29_NoLeakAcrossRuns ==
    /\ [][runs' = runs + 1
            => (~stop' /\ ~trace'.stop_called /\ trace'.stop_seen = 0)]_vars
    /\ [][(stop /\ ~stop') => runs' = runs + 1]_vars
    /\ [][(~stop /\ stop')
            => (isRunning /\ runs' = runs /\ trace'.stop_called)]_vars
    /\ [][(~isRunning /\ runs' = runs) => UNCHANGED worker_vars]_vars
    /\ [](stop <=> trace.stop_called)
    /\ [](trace.stop_seen > 0 => trace.stop_called)

\* a stopped run has ended with files written, its flag is still set, and
\* Create is enabled again for the next run
Wit_C29_StoppedRunEnded ==
    /\ runs = 1
    /\ stop
    /\ trace.stop_seen = 2
    /\ TerminalHandled
    /\ create_enabled

---------------------------------------------------------------------------
(* C30: the manifest rows match the files written.                         *)

\* C30: in every manifest that is written the rows are in processing
\* order, there is exactly one row per image saved in the run and none for
\* a value that was not saved, and the full path of each row is the path
\* the image of that value was saved to.
Thm_C30_ManifestMatchesFiles ==
    manifest.written =>
        /\ Len(manifest.rows) = Len(files)
        /\ \A i \in 1..Len(manifest.rows) :
               /\ manifest.rows[i].value = count_values[i]
               /\ manifest.rows[i].value = files[i].value
               /\ manifest.rows[i].path = files[i].path
        /\ pc \in {"done", "finished"}

\* a manifest of two rows for a run of three values that was stopped
Wit_C30_TwoOfThree ==
    /\ manifest.written
    /\ Len(manifest.rows) = 2
    /\ total = 3
    /\ Len(files) = 2

=============================================================================
